---- MODULE Spec2Model ----
(***************************************************************************)
(* A model of mesonbuild/mdist.py: the "dist" pipeline that snapshots a    *)
(* Git or Mercurial source tree, archives it, verifies one archive by a    *)
(* configure/build/test/install cycle and writes .sha256sum sidecars.      *)
(*                                                                         *)
(* Strings are modelled as sequences of chunks (a chunk is a piece of text *)
(* that is never split further, such as "gztar", "," or ".tar"), so that   *)
(* str.split, concatenation and os.path.join are computed, not assumed.    *)
(* The pipeline is one sequential process; pc is its position in run() and *)
(* in the functions run() calls.  Every external process and every file    *)
(* system call that can fail is a step whose outcome is chosen by the      *)
(* environment.                                                            *)
(***************************************************************************)
EXTENDS Integers, Sequences, FiniteSets

\* ------------------------------------------------------------------ bounds
\* Longest --formats string, in chunks ("gztar,xztar,zip" has five).
MaxFmtLen == 5
\* Largest number of dist scripts registered by the project.
MaxScripts == 2

\* ------------------------------------------------------------- small helpers
Range(s) == {s[k] : k \in DOMAIN s}

RECURSIVE SeqsUpTo(_, _)
SeqsUpTo(S, n) ==
    IF n = 0 THEN {<<>>}
    ELSE LET shorter == SeqsUpTo(S, n - 1)
         IN  shorter \cup {Append(s, c) : s \in {t \in shorter : Len(t) = n - 1}, c \in S}

\* ---------------------------------------------------------- program constants
gztar == <<"gztar">>
xztar == <<"xztar">>
zip == <<"zip">>

archive_choices == <<gztar, xztar, zip>>

archive_extension(a) ==
    IF a = gztar THEN <<".tar", ".gz">>
    ELSE IF a = xztar THEN <<".tar", ".xz">>
    ELSE <<".zip">>

\* The chunks a --formats string is made of: the three format names, a name
\* that is no format, and the separator.
FormatChunks == {"gztar", "xztar", "zip", "rar", ","}
FormatStrings == SeqsUpTo(FormatChunks, MaxFmtLen)

\* The names the dist scripts of the project are known by, in the order the
\* build description registered them.
ScriptNames == <<"script1", "script2", "script3", "script4">>
DistScripts == {SubSeq(ScriptNames, 1, n) : n \in 0..MaxScripts}

\* Paths computed by run() (bld_root itself is left out of every path).
dist_name == <<"proj-1.0">>
dist_sub == <<"meson-dist">>
priv_dir == <<"meson-private">>
join(a, b) == a \o <<"/">> \o b
distdir == join(dist_sub, dist_name)
unpackdir == join(priv_dir, <<"dist-unpack">>)
builddir == join(priv_dir, <<"dist-build">>)
installdir == join(priv_dir, <<"dist-install">>)
scratch_dirs == <<unpackdir, builddir, installdir>>

\* ------------------------------------------------------------ pure functions
\* str.split(','): the pieces between the separators; never an empty list.
RECURSIVE split(_)
split(s) ==
    IF \E k \in 1..Len(s) : s[k] = ","
    THEN LET k == CHOOSE k \in 1..Len(s) : s[k] = "," /\ \A j \in 1..(k - 1) : s[j] # ","
         IN  <<SubSeq(s, 1, k - 1)>> \o split(SubSeq(s, k + 1, Len(s)))
    ELSE <<s>>

NoMessage == [text |-> "", value |-> <<>>, permitted |-> <<>>]
Message(t) == [text |-> t, value |-> <<>>, permitted |-> <<>>]

\* A variant of determine_loop that validates the first element only.
RECURSIVE determine_loop_first_only(_, _, _)
determine_loop_first_only(parts, k, r) ==
    IF k > Len(parts)
    THEN [ending |-> "return", message |-> NoMessage, result |-> r]
    ELSE IF k = 1 /\ parts[k] \notin Range(archive_choices)
    THEN [ending |-> "sys.exit",
          message |-> [text |-> "Value not one of permitted values",
                       value |-> parts[k], permitted |-> archive_choices],
          result |-> r]
    ELSE determine_loop_first_only(parts, k + 1, Append(r, parts[k]))

\* A variant of determine_loop that skips empty elements instead of rejecting them.
RECURSIVE determine_loop_skip_empty(_, _, _)
determine_loop_skip_empty(parts, k, r) ==
    IF k > Len(parts)
    THEN [ending |-> "return", message |-> NoMessage, result |-> r]
    ELSE IF parts[k] = <<>>
    THEN determine_loop_skip_empty(parts, k + 1, r)
    ELSE IF parts[k] \notin Range(archive_choices)
    THEN [ending |-> "sys.exit",
          message |-> [text |-> "Value not one of permitted values",
                       value |-> parts[k], permitted |-> archive_choices],
          result |-> r]
    ELSE determine_loop_skip_empty(parts, k + 1, Append(r, parts[k]))

\* The loop of determine_archives_to_generate over parts[k..], result so far r.
RECURSIVE determine_loop(_, _, _)
determine_loop(parts, k, r) ==
    IF k > Len(parts)
    THEN IF Len(parts) = 0
         THEN [ending |-> "exception", message |-> Message("NameError"), result |-> r]
         ELSE IF Len(parts[Len(parts)]) = 0
         THEN [ending |-> "sys.exit", message |-> Message("No archive types specified."),
               result |-> r]
         ELSE [ending |-> "return", message |-> NoMessage, result |-> r]
    ELSE IF parts[k] \notin Range(archive_choices)
    THEN [ending |-> "sys.exit",
          message |-> [text |-> "Value not one of permitted values",
                       value |-> parts[k], permitted |-> archive_choices],
          result |-> r]
    ELSE determine_loop(parts, k + 1, Append(r, parts[k]))

\* Variants of determine_archives_to_generate built on the two loops above.
determine_archives_first_only(formats) ==
    determine_loop_first_only(split(formats), 1, <<>>)
determine_archives_skip_empty(formats) ==
    determine_loop_skip_empty(split(formats), 1, <<>>)

\* determine_archives_to_generate(options), with options.formats = formats.
determine_archives_to_generate(formats) == determine_loop(split(formats), 1, <<>>)

\* glob(os.path.join(dirname, '*')): '*' matches no name that starts with a dot.
glob_star(entries) == {e \in entries : e[1] # "."}

\* shutil.make_archive(base_name, format): the file it writes.
make_archive(base_name, format) ==
    base_name \o (IF format = gztar THEN <<".tar", ".gz">>
                  ELSE IF format = xztar THEN <<".tar", ".xz">>
                  ELSE <<".zip">>)

hashname(fname) == fname \o <<".sha256sum">>

\* ------------------------------------------------------------------- state
VARIABLES
    pc,            \* position of the pipeline
    formats,       \* options.formats
    dist_scripts,  \* b.dist_scripts
    gitmodules,    \* lines of <distdir>/.gitmodules (<<>> when there is none)
    environ,       \* os.environ: a set of [var, value] bindings
    src_git,       \* kind of <src_root>/.git: "absent", "file" or "dir"
    src_hg,        \* kind of <src_root>/.hg
    vcs,           \* strategy chosen by run(): "none", "git" or "hg"
    archives,      \* result of determine_archives_to_generate
    names,         \* output_names / names
    fs,            \* paths that exist under the build directory
    unpacked,      \* top-level entries of dist-unpack
    idx,           \* index of the loop the pipeline is in
    pending,       \* how check_dist is about to end: "none" (falls through to
                   \* return 0), "return 1", "exception" (raised in the try
                   \* block) or "raised in finally"
    check_rc,      \* outcome of check_dist: "none", "0", "1", "exception"
    log,           \* external commands and file writes, in order
    msgs,          \* messages and warnings printed
    result         \* how the run ended: "none", "return 0", "return 1",
                   \* "sys.exit" (non-zero status), "exception"

vars == <<pc, formats, dist_scripts, gitmodules, environ, src_git, src_hg, vcs, archives, names, fs,
          unpacked, idx, pending, check_rc, log, msgs, result>>

\* A log entry: the command, its path argument, the environment it ran in,
\* and how it came out ("0", another exit code, or an error).
Entry(c, a, e, o) == [cmd |-> c, arg |-> a, env |-> e, out |-> o]
Cmds(l) == {l[k].cmd : k \in DOMAIN l}

\* The kinds of source tree run() can be started in.
EntryKinds == {"absent", "file", "dir"}
SourceTrees ==
    {[git |-> "dir", hg |-> "absent"], [git |-> "file", hg |-> "absent"],
     [git |-> "dir", hg |-> "dir"], [git |-> "absent", hg |-> "dir"],
     [git |-> "absent", hg |-> "file"], [git |-> "absent", hg |-> "absent"]}

\* The environment run() is started in: a search path, and a DESTDIR the
\* caller had set for uses of its own.
ParentEnviron ==
    {[var |-> "PATH", value |-> <<"/", "bin">>],
     [var |-> "DESTDIR", value |-> <<"/", "prod">>]}

\* env[var] = value on a copy of an environment.
setenv(env, var, value) ==
    {b \in env : b.var # var} \cup {[var |-> var, value |-> value]}

\* Directories a crashed earlier run may have left behind, and a file left
\* in each of them.
StaleDirs == {distdir, unpackdir, builddir, installdir}
stale == <<"stale">>
StaleFs == StaleDirs \cup {join(d, stale) : d \in StaleDirs}
InitialFs == {{}, StaleFs}

Init ==
    /\ pc = "run"
    /\ formats = <<>>
    /\ dist_scripts \in DistScripts
    /\ gitmodules = <<>>
    /\ environ = ParentEnviron
    /\ src_git = "absent"
    /\ src_hg = "absent"
    /\ vcs = "none"
    /\ archives = <<>>
    /\ names = <<>>
    /\ fs \in InitialFs
    /\ unpacked = {}
    /\ idx = 0
    /\ pending = "none"
    /\ check_rc = "none"
    /\ log = <<>>
    /\ msgs = {}
    /\ result = "none"

\* The run ends: how, and with which message (NoMessage for none).
Finish(how, message) ==
    /\ pc' = "done"
    /\ result' = how
    /\ msgs' = IF message = NoMessage THEN msgs ELSE msgs \cup {message}

\* ------------------------------------------------------------------- run()
\* run(), lines 193-204: load the build, validate options.formats.
run_determine_archives ==
    /\ pc = "run"
    /\ \E f \in FormatStrings :
         LET d == determine_archives_to_generate(f)
         IN  /\ formats' = f
             /\ IF d.ending = "return"
                THEN /\ archives' = d.result
                     /\ pc' = "detect"
                     /\ UNCHANGED <<result, msgs>>
                ELSE /\ Finish(d.ending, d.message)
                     /\ UNCHANGED archives
    /\ UNCHANGED <<dist_scripts, gitmodules, environ, src_git, src_hg, vcs, names, fs, unpacked, idx,
                   pending, check_rc, log>>

\* A variant of select_vcs that takes .git for a Git tree only if it is a directory.
select_vcs_git_dir_only(git, hg) ==
    IF git = "dir" THEN "git"
    ELSE IF hg = "dir" THEN "hg"
    ELSE "none"

\* run(), lines 206-211: the strategy for a source tree whose .git and .hg
\* entries are of the given kinds.
select_vcs(git, hg) ==
    IF git = "dir" \/ git = "file" THEN "git"
    ELSE IF hg = "dir" THEN "hg"
    ELSE "none"

\* run(), lines 206-213: choose the strategy from <src_root>/.git and .hg.
run_detect_vcs ==
    /\ pc = "detect"
    /\ \E t \in SourceTrees :
         /\ src_git' = t.git
         /\ src_hg' = t.hg
         /\ vcs' = select_vcs(t.git, t.hg)
         /\ IF select_vcs(t.git, t.hg) = "git"
            THEN /\ pc' = "git_dirty"
                 /\ UNCHANGED <<result, msgs>>
            ELSE IF select_vcs(t.git, t.hg) = "hg"
            THEN /\ pc' = "hg_dirty"
                 /\ UNCHANGED <<result, msgs>>
            ELSE Finish("return 1",
                        Message("Dist currently only works with Git or Mercurial repos"))
    /\ UNCHANGED <<formats, dist_scripts, gitmodules, environ, archives, names, fs,
                   unpacked, idx, pending, check_rc, log>>

\* ------------------------------------------------------- create_dist_git()
Warning(t) == Message(t)
DirtyWarning ==
    Warning("Repository has uncommitted changes that will not be included in the dist tarball")

\* Path p is directory d or lies below it.
Under(d, p) == p = d \/ (Len(p) > Len(d) /\ SubSeq(p, 1, Len(d) + 1) = d \o <<"/">>)

\* shutil.rmtree(d): d and everything below it is gone.
rmtree(files, d) == {p \in files : ~Under(d, p)}

\* create_dist_git, lines 94-99: the dirty-index warning, then a fresh distdir.
create_dist_git_distdir ==
    /\ pc = "git_dirty"
    /\ \E ret \in {"0", "1"} :
         /\ log' = Append(log, Entry("git diff-index", <<>>, environ, ret))
         /\ msgs' = IF ret = "1" THEN msgs \cup {DirtyWarning} ELSE msgs
    /\ fs' = (IF distdir \in fs THEN rmtree(fs, distdir) ELSE fs) \cup {dist_sub, distdir}
    /\ pc' = "git_clone"
    /\ UNCHANGED <<formats, dist_scripts, gitmodules, environ, src_git, src_hg, vcs, archives, names,
                   unpacked, idx, pending, check_rc, result>>

\* subprocess.check_call: a non-zero exit raises CalledProcessError, which
\* nothing in run() catches.
check_call(rc, next) ==
    IF rc = "0"
    THEN /\ pc' = next
         /\ UNCHANGED <<result, msgs>>
    ELSE Finish("exception", NoMessage)

\* What git clone can put into distdir: paths relative to distdir (a name
\* that starts with ".git" is the chunk ".git" followed by the rest of the
\* name) and the lines of the .gitmodules file, if there is one.
CloneTrees ==
    {[files |-> {<<".git">>, <<"meson.build">>}, gitmodules |-> <<>>],
     [files |-> {<<".git">>, <<".git", "ignore">>, <<"meson.build">>, <<"src">>,
                 <<"src", "/", ".git", "ignore">>},
      gitmodules |-> <<>>],
     [files |-> {<<".git">>, <<".git", "modules">>, <<"meson.build">>, <<"sub">>},
      gitmodules |-> <<<<"[submodule]">>, <<"path", "=", "sub">>,
                       <<"url", "=", "example.org/sub">>>>]}

\* What git submodule update --init --recursive can add below distdir for the
\* submodule at sub: its gitlink file, and for a submodule that has a submodule
\* of its own also its .gitmodules and the nested checkout.
SubmoduleTrees ==
    {{<<"sub", "/", ".git">>, <<"sub", "/", "lib.c">>},
     {<<"sub", "/", ".git">>, <<"sub", "/", ".git", "modules">>, <<"sub", "/", "nested">>,
      <<"sub", "/", "nested", "/", ".git">>, <<"sub", "/", "nested", "/", "dep.c">>}}

\* The paths of a tree, placed below directory d.
Below(d, tree) == {join(d, q) : q \in tree}

\* create_dist_git, line 100.
create_dist_git_clone ==
    /\ pc = "git_clone"
    /\ \E rc \in {"0", "1"} :
         /\ log' = Append(log, Entry("git clone", distdir, environ, rc))
         /\ check_call(rc, "git_submodules")
         /\ IF rc = "0"
            THEN \E t \in CloneTrees :
                   /\ fs' = fs \cup Below(distdir, t.files)
                   /\ gitmodules' = t.gitmodules
            ELSE UNCHANGED <<fs, gitmodules>>
    /\ UNCHANGED <<formats, dist_scripts, environ, src_git, src_hg, vcs, archives, names,
                   unpacked, idx, pending, check_rc>>

\* Where the pipeline goes once scripts 1..k-1 have run.
after_script(k) == IF k > Len(dist_scripts) THEN "git_archive" ELSE "git_scripts"

\* glob(os.path.join(dirname, '.git*')): the entries of dirname itself whose
\* name starts with ".git".
glob_git(files, dirname) ==
    {e \in files :
        /\ Len(e) >= Len(dirname) + 2
        /\ SubSeq(e, 1, Len(dirname) + 1) = dirname \o <<"/">>
        /\ e[Len(dirname) + 2] = ".git"
        /\ \A k \in (Len(dirname) + 2)..Len(e) : e[k] # "/"}

\* del_gitfiles(dirname), lines 46-51: each match is removed, a directory with
\* everything below it.
del_gitfiles(files, dirname) ==
    {p \in files : ~(\E e \in glob_git(files, dirname) : Under(e, p))}

\* process_submodules, lines 60-62: the key and the value of a line with '='.
HasEquals(line) == \E k \in DOMAIN line : line[k] = "="
EqualsAt(line) == CHOOSE k \in DOMAIN line : line[k] = "=" /\ \A j \in 1..(k - 1) : line[j] # "="
line_key(line) == SubSeq(line, 1, EqualsAt(line) - 1)
line_value(line) == SubSeq(line, EqualsAt(line) + 1, Len(line))

\* process_submodules, lines 58-67: del_gitfiles for the path of every
\* "path = ..." line, from line k on.
RECURSIVE strip_submodules(_, _, _, _)
strip_submodules(files, dirname, lines, k) ==
    IF k > Len(lines) THEN files
    ELSE IF HasEquals(lines[k]) /\ line_key(lines[k]) = <<"path">>
    THEN strip_submodules(del_gitfiles(files, join(dirname, line_value(lines[k]))),
                          dirname, lines, k + 1)
    ELSE strip_submodules(files, dirname, lines, k + 1)

module_file == join(distdir, <<".git", "modules">>)

\* create_dist_git, lines 101-102: process_submodules(distdir), del_gitfiles(distdir).
process_submodules ==
    /\ pc = "git_submodules"
    /\ IF module_file \in fs
       THEN \E rc \in {"0", "1"} :
              /\ log' = Append(log, Entry("git submodule update", distdir, environ, rc))
              /\ check_call(rc, after_script(1))
              /\ IF rc = "0"
                 THEN \E fetched \in SubmoduleTrees :
                        /\ fs' = del_gitfiles(
                                    strip_submodules(fs \cup Below(distdir, fetched),
                                                     distdir, gitmodules, 1),
                                    distdir)
                        /\ gitmodules' = <<>>
                 ELSE UNCHANGED <<fs, gitmodules>>
       ELSE /\ log' = log
            /\ check_call("0", after_script(1))
            /\ fs' = del_gitfiles(fs, distdir)
            /\ gitmodules' = <<>>
    /\ idx' = 1
    /\ UNCHANGED <<formats, dist_scripts, environ, src_git, src_hg, vcs, archives, names,
                   unpacked, pending, check_rc>>

\* The script run_dist_scripts runs in its k-th iteration.
script_at(scripts, k) == scripts[k]

\* A variant of script_ending that does not look at the exit code.
script_ending_rc_ignored(outcome) ==
    IF outcome = "OSError" THEN "sys.exit" ELSE "continue"

\* run_dist_scripts, lines 79-85: what follows an outcome of subprocess.call.
script_ending(outcome) ==
    IF outcome = "OSError" THEN "sys.exit"
    ELSE IF outcome # "0" THEN "sys.exit"
    ELSE "continue"

script_message(outcome) ==
    IF outcome = "OSError" THEN Message("Failed to run dist script")
    ELSE IF outcome # "0" THEN Message("Dist script errored out")
    ELSE NoMessage

\* run_dist_scripts, one iteration of the loop of lines 74-85.
\* run_dist_scripts, lines 72-73: a copy of os.environ with MESON_DIST_ROOT.
script_env(dist_root) == setenv(environ, "MESON_DIST_ROOT", dist_root)

run_dist_scripts ==
    /\ pc = "git_scripts"
    /\ idx <= Len(dist_scripts)
    /\ \E outcome \in {"0", "1", "OSError"} :
         /\ log' = Append(log, Entry("dist script", <<script_at(dist_scripts, idx)>>,
                                     script_env(distdir), outcome))
         /\ IF script_ending(outcome) = "continue"
            THEN /\ pc' = after_script(idx + 1)
                 /\ idx' = IF idx + 1 > Len(dist_scripts) THEN 1 ELSE idx + 1
                 /\ UNCHANGED <<result, msgs>>
            ELSE /\ Finish(script_ending(outcome), script_message(outcome))
                 /\ idx' = idx
    /\ UNCHANGED <<formats, dist_scripts, gitmodules, environ, src_git, src_hg, vcs, archives, names, fs,
                   unpacked, pending, check_rc>>

\* A variant of remove_snapshot that leaves the snapshot where it is.
remove_snapshot_forgotten(files) == files

\* create_dist_git, line 109: shutil.rmtree(distdir).
remove_snapshot(files) == rmtree(files, distdir)

\* create_dist_git, lines 105-108: one iteration of the loop over archives.
create_dist_git_archive ==
    /\ pc = "git_archive"
    /\ IF idx <= Len(archives)
       THEN /\ fs' = fs \cup {make_archive(distdir, archives[idx])}
            /\ log' = Append(log, Entry("make_archive",
                                        make_archive(distdir, archives[idx]), environ, "0"))
            /\ names' = Append(names, distdir \o archive_extension(archives[idx]))
            /\ idx' = idx + 1
            /\ pc' = pc
       ELSE \* line 109: shutil.rmtree(distdir); line 110: return output_names
            /\ fs' = remove_snapshot(fs)
            /\ idx' = 1
            /\ pc' = "check"
            /\ UNCHANGED <<log, names>>
    /\ UNCHANGED <<formats, dist_scripts, gitmodules, environ, src_git, src_hg, vcs, archives, unpacked,
                   pending, check_rc, msgs, result>>

\* --------------------------------------------------------- create_dist_hg()
tarname == join(dist_sub, dist_name \o <<".tar">>)
xzname == tarname \o <<".xz">>
gzname == tarname \o <<".gz">>
zipname == join(dist_sub, dist_name \o <<".zip">>)

\* create_dist_hg, lines 119-120: hg summary through check_output.
create_dist_hg_summary ==
    /\ pc = "hg_dirty"
    /\ \E out \in {"clean", "dirty", "failed"} :
         /\ log' = Append(log, Entry("hg summary", <<>>, environ,
                                     IF out = "failed" THEN "1" ELSE "0"))
         /\ IF out = "failed"
            THEN check_call("1", "hg_tar")
            ELSE /\ pc' = "hg_tar"
                 /\ msgs' = IF out = "dirty" THEN msgs \cup {DirtyWarning} ELSE msgs
                 /\ UNCHANGED result
    /\ UNCHANGED <<formats, dist_scripts, gitmodules, environ, src_git, src_hg, vcs, archives, names, fs,
                   unpacked, idx, pending, check_rc>>

\* create_dist_hg, lines 122-127: the dist directory, then hg archive -t tar.
create_dist_hg_tar ==
    /\ pc = "hg_tar"
    /\ \E rc \in {"0", "1"} :
         /\ log' = Append(log, Entry("hg archive tar", tarname, environ, rc))
         /\ check_call(rc, "hg_compress")
         /\ fs' = fs \cup {dist_sub} \cup (IF rc = "0" THEN {tarname} ELSE {})
    /\ UNCHANGED <<formats, dist_scripts, gitmodules, environ, src_git, src_hg, vcs, archives, names,
                   unpacked, idx, pending, check_rc>>

\* A variant of hg_compressed that compresses nothing.
hg_compressed_none(archs) == <<>>

\* A variant of hg_compressed that writes the xz archive whether asked for or not.
hg_compressed_always_xz(archs) ==
    <<xzname>> \o (IF gztar \in Range(archs) THEN <<gzname>> ELSE <<>>)

\* create_dist_hg, lines 131-138: the archives compressed from the tar file.
hg_compressed(archs) ==
    (IF xztar \in Range(archs) THEN <<xzname>> ELSE <<>>)
        \o (IF gztar \in Range(archs) THEN <<gzname>> ELSE <<>>)

ScriptsWarning == Warning("dist scripts are not supported in Mercurial projects")

\* A variant of hg_scripts_warning that prints nothing.
hg_scripts_no_warning(scripts) == {}

\* create_dist_hg, lines 129-130: the warning printed when scripts are registered.
hg_scripts_warning(scripts) == IF scripts # <<>> THEN {ScriptsWarning} ELSE {}

\* create_dist_hg, lines 128-139: the warning about dist scripts, the xz and
\* gz archives, then the tar file is unlinked.
create_dist_hg_compress ==
    /\ pc = "hg_compress"
    /\ msgs' = msgs \cup hg_scripts_warning(dist_scripts)
    /\ names' = hg_compressed(archives)
    /\ fs' = (fs \cup Range(hg_compressed(archives))) \ {tarname}
    /\ log' = log \o [k \in 1..Len(hg_compressed(archives)) |->
                        Entry("compress", hg_compressed(archives)[k], environ, "0")]
    /\ pc' = "hg_zip"
    /\ UNCHANGED <<formats, dist_scripts, gitmodules, environ, src_git, src_hg, vcs, archives, unpacked,
                   idx, pending, check_rc, result>>

\* create_dist_hg, lines 140-143: hg archive -t zip, if zip was asked for.
create_dist_hg_zip ==
    /\ pc = "hg_zip"
    /\ IF zip \in Range(archives)
       THEN \E rc \in {"0", "1"} :
              /\ log' = Append(log, Entry("hg archive zip", zipname, environ, rc))
              /\ check_call(rc, "check")
              /\ fs' = IF rc = "0" THEN fs \cup {zipname} ELSE fs
              /\ names' = IF rc = "0" THEN Append(names, zipname) ELSE names
       ELSE /\ check_call("0", "check")
            /\ UNCHANGED <<log, fs, names>>
    /\ idx' = 1
    /\ UNCHANGED <<formats, dist_scripts, gitmodules, environ, src_git, src_hg, vcs, archives, unpacked,
                   pending, check_rc>>

\* ------------------------------------------------------------- check_dist()
\* A variant of recreate that keeps what the directory holds.
recreate_keep(files, p) == files \cup {p}

\* check_dist, lines 152-154: remove p if it exists, then make it.
recreate(files, p) == (IF p \in files THEN rmtree(files, p) ELSE files) \cup {p}

\* The names of the entries of directory d.
listdir(files, d) ==
    {SubSeq(p, Len(d) + 2, Len(p)) : p \in {q \in files : Under(d, q) /\ q # d}}

\* What an archive can unpack to: the top-level entries left in dist-unpack.
\* A name is a sequence of chunks; a hidden name starts with the chunk ".".
EntryNames == {<<"proj-1.0">>, <<"extra">>, <<".", "hidden">>}
UnpackedContents == {S \in SUBSET EntryNames : <<"extra">> \in S => <<"proj-1.0">> \in S}

\* run(), lines 214-217: names is never None; names[0] is the archive checked.
run_call_check_dist ==
    /\ pc = "check"
    /\ IF Len(names) = 0
       THEN Finish("exception", Message("IndexError"))
       ELSE /\ pc' = "prepare"
            /\ UNCHANGED <<result, msgs>>
    /\ idx' = 1
    /\ UNCHANGED <<formats, dist_scripts, gitmodules, environ, src_git, src_hg, vcs, archives, names, fs,
                   unpacked, pending, check_rc, log>>

\* check_dist, lines 151-154, one iteration: the directory is removed if it
\* exists and made again.  Both calls can raise, outside the try block.
check_dist_prepare ==
    /\ pc = "prepare"
    /\ LET p == scratch_dirs[idx]
       IN  \E outcome \in {"ok", "rmtree raises", "mkdir raises"} :
             /\ outcome = "rmtree raises" => p \in fs
             /\ IF outcome = "ok"
                THEN /\ fs' = recreate(fs, p)
                     /\ pc' = IF idx = Len(scratch_dirs) THEN "unpack" ELSE pc
                     /\ idx' = IF idx = Len(scratch_dirs) THEN 1 ELSE idx + 1
                     /\ UNCHANGED <<check_rc, result, msgs>>
                ELSE /\ fs' = IF outcome = "mkdir raises" THEN rmtree(fs, p) ELSE fs
                     /\ check_rc' = "exception"
                     /\ Finish("exception", NoMessage)
                     /\ idx' = idx
    /\ UNCHANGED <<formats, dist_scripts, gitmodules, environ, src_git, src_hg, vcs, archives, names,
                   unpacked, pending, log>>

\* A variant of packagename that picks the last archive.
packagename_last == names[Len(names)]

\* run(), line 217: the archive handed to check_dist.
packagename == names[1]

\* check_dist, line 159: the assertion on what glob found.
one_top_level_entry(unpacked_files) == Cardinality(unpacked_files) = 1

\* check_dist, lines 157-160: unpack names[0], glob the unpack directory and
\* assert that it found one entry.
check_dist_unpack ==
    /\ pc = "unpack"
    /\ \/ /\ log' = Append(log, Entry("unpack_archive", packagename, environ, "raised"))
          /\ pending' = "exception"
          /\ pc' = "finally"
          /\ UNCHANGED <<fs, unpacked, msgs>>
       \/ \E content \in UnpackedContents :
            /\ log' = Append(log, Entry("unpack_archive", packagename, environ, "0"))
            /\ fs' = fs \cup {join(unpackdir, e) : e \in content}
            /\ unpacked' = listdir(fs', unpackdir)
            /\ IF one_top_level_entry(glob_star(unpacked'))
               THEN /\ pc' = "configure"
                    /\ UNCHANGED <<pending, msgs>>
               ELSE /\ pc' = "finally"
                    /\ pending' = "exception"
                    /\ msgs' = msgs \cup {Message("AssertionError")}
    /\ idx' = 1
    /\ UNCHANGED <<formats, dist_scripts, gitmodules, environ, src_git, src_hg, vcs, archives, names,
                   check_rc, result>>

\* The order of the stages of lines 161-174.
stage_after(st) ==
    IF st = "configure" THEN "build"
    ELSE IF st = "build" THEN "test"
    ELSE IF st = "test" THEN "install"
    ELSE "finally"

stage_message(st) ==
    IF st = "configure" THEN Message("Running Meson on distribution package failed")
    ELSE IF st = "build" THEN Message("Compiling the distribution package failed")
    ELSE IF st = "test" THEN Message("Running unit tests on the distribution package failed")
    ELSE Message("Installing the distribution package failed")

\* A variant of after_stage in which a failed test run does not stop check_dist.
after_stage_test_ignored(st, rc) ==
    IF rc # "0" /\ st # "test"
    THEN [pc |-> "finally", pending |-> "return 1", message |-> stage_message(st)]
    ELSE [pc |-> stage_after(st), pending |-> "none", message |-> NoMessage]

\* What follows the exit code of a stage: return 1, or the next stage.
after_stage(st, rc) ==
    IF rc # "0"
    THEN [pc |-> "finally", pending |-> "return 1", message |-> stage_message(st)]
    ELSE [pc |-> stage_after(st), pending |-> "none", message |-> NoMessage]

\* A variant of stage_env that sets DESTDIR for every stage.
stage_env_always_destdir(st) == setenv(environ, "DESTDIR", installdir)

\* check_dist, lines 161-172: configure, build and test inherit os.environ;
\* install gets a copy of it with DESTDIR.
stage_env(st) ==
    IF st = "install" THEN setenv(environ, "DESTDIR", installdir) ELSE environ

\* One stage: subprocess.call in the given environment.
stage(st, env) ==
    /\ pc = st
    /\ \E rc \in {"0", "1"} :
         LET a == after_stage(st, rc)
         IN  /\ log' = Append(log, Entry(st, builddir, env, rc))
             /\ pc' = a.pc
             /\ pending' = a.pending
             /\ msgs' = IF a.message = NoMessage THEN msgs ELSE msgs \cup {a.message}
    /\ idx' = 1
    /\ UNCHANGED <<formats, dist_scripts, gitmodules, environ, src_git, src_hg, vcs, archives, names, fs,
                   unpacked, check_rc, result>>

\* check_dist, lines 161-163.
check_dist_configure == stage("configure", stage_env("configure"))
\* check_dist, lines 164-166.
check_dist_build == stage("build", stage_env("build"))
\* check_dist, lines 167-169.
check_dist_test == stage("test", stage_env("test"))
\* check_dist, lines 170-174.
check_dist_install == stage("install", stage_env("install"))

\* check_dist, lines 175-180, one rmtree of the finally block; after the last
\* one the function ends the way the try block ended.  An rmtree that raises
\* ends the function at once, with that exception.
\* A variant of cleanup_dirs that removes the dist directory in place of the
\* install directory.
cleanup_dirs_with_dist_sub == <<unpackdir, builddir, dist_sub>>

\* A variant of cleanup_dirs that forgets the install directory.
cleanup_dirs_without_install == <<unpackdir, builddir>>

\* check_dist, lines 176-178: the directories the finally block removes.
cleanup_dirs == <<unpackdir, builddir, installdir>>

check_dist_finally ==
    /\ pc = "finally"
    /\ \E raises \in BOOLEAN :
         IF raises
         THEN /\ pending' = "raised in finally"
              /\ check_rc' = "exception"
              /\ Finish("exception", NoMessage)
              /\ UNCHANGED <<fs, idx>>
         ELSE /\ fs' = rmtree(fs, cleanup_dirs[idx])
              /\ IF idx < Len(cleanup_dirs)
                 THEN /\ idx' = idx + 1
                      /\ UNCHANGED <<pc, pending, check_rc, result, msgs>>
                 ELSE /\ idx' = 1
                      /\ UNCHANGED pending
                      /\ IF pending = "exception"
                         THEN /\ check_rc' = "exception"
                              /\ Finish("exception", NoMessage)
                         ELSE /\ check_rc' = IF pending = "return 1" THEN "1" ELSE "0"
                              /\ pc' = "stamp"
                              /\ UNCHANGED <<result, msgs>>
    /\ UNCHANGED <<formats, dist_scripts, gitmodules, environ, src_git, src_hg, vcs, archives, names,
                   unpacked, log>>

\* A variant of stamping that stamps whatever check_dist returned.
stamping_unconditional(rc) == rc \in {"0", "1"}

\* run(), line 218: the test that guards the stamping loop.
stamping(rc) == rc = "0"

\* run(), lines 218-220, one iteration: create_hash(name) writes the sidecar.
run_create_hash ==
    /\ pc = "stamp"
    /\ stamping(check_rc)
    /\ idx <= Len(names)
    /\ fs' = fs \cup {hashname(names[idx])}
    /\ log' = Append(log, Entry("create_hash", names[idx], environ, "0"))
    /\ idx' = idx + 1
    /\ UNCHANGED <<pc, formats, dist_scripts, gitmodules, environ, src_git, src_hg, vcs, archives, names,
                   unpacked, pending, check_rc, msgs, result>>

\* run(), line 221: return rc.
run_return ==
    /\ pc = "stamp"
    /\ ~stamping(check_rc) \/ idx > Len(names)
    /\ Finish(IF check_rc = "0" THEN "return 0" ELSE "return 1", NoMessage)
    /\ UNCHANGED <<formats, dist_scripts, gitmodules, environ, src_git, src_hg, vcs, archives, names, fs,
                   unpacked, idx, pending, check_rc, log>>

Next ==
    \/ run_determine_archives
    \/ run_detect_vcs
    \/ create_dist_git_distdir
    \/ create_dist_git_clone
    \/ process_submodules
    \/ run_dist_scripts
    \/ create_dist_git_archive
    \/ create_dist_hg_summary
    \/ create_dist_hg_tar
    \/ create_dist_hg_compress
    \/ create_dist_hg_zip
    \/ run_call_check_dist
    \/ check_dist_prepare
    \/ check_dist_unpack
    \/ check_dist_configure
    \/ check_dist_build
    \/ check_dist_test
    \/ check_dist_install
    \/ check_dist_finally
    \/ run_create_hash
    \/ run_return

Spec == Init /\ [][Next]_vars

\* ------------------------------------------------------------ properties
Stages == <<"configure", "build", "test", "install">>
IsStage(e) == e.cmd \in Range(Stages)
IsScript(e) == e.cmd = "dist script"
IsHash(e) == e.cmd = "create_hash"
StageLog == SelectSeq(log, IsStage)
ScriptLog == SelectSeq(log, IsScript)
HashLog == SelectSeq(log, IsHash)

\* The archive-building step (create_dist_git or create_dist_hg) has returned.
Built ==
    \/ pc \in {"check", "prepare", "unpack", "configure", "build", "test", "install",
               "finally", "stamp"}
    \/ pc = "done" /\ (check_rc # "none" \/ Message("IndexError") \in msgs)

\* C1: a sidecar is written only after check_dist has returned 0; when the run
\* has ended, it returned 0 exactly if check_dist returned 0, and then every
\* produced archive has its sidecar; a run that ended any other way (return 1,
\* sys.exit or an exception) wrote no sidecar at all.
C1_StampedIffVerified ==
    /\ HashLog # <<>> => check_rc = "0"
    /\ (\E p \in fs : \E n \in Range(names) : p = hashname(n)) => check_rc = "0"
    /\ pc = "done" =>
         /\ result = "return 0" <=> check_rc = "0"
         /\ check_rc = "0" =>
              /\ \A k \in DOMAIN names : hashname(names[k]) \in fs
              /\ {e.arg : e \in Range(HashLog)} = Range(names)
         /\ result # "return 0" => HashLog = <<>>

C1_Witness ==
    /\ pc = "done"
    /\ result = "return 0"
    /\ Len(names) = 2
    /\ \A k \in DOMAIN names : hashname(names[k]) \in fs

\* check_dist has ended in one of the ways the try block can end: it returned
\* 0 or 1, or the exception of a failed unpack or of the failed assertion left
\* the function after the finally block.
CheckDistEndedByTryBlock ==
    \/ check_rc \in {"0", "1"}
    \/ check_rc = "exception" /\ pending = "exception"

\* C2: when check_dist has ended by returning 0, by returning 1 after a stage
\* failed, or by the exception of a failed unpack or of the failed assertion,
\* none of dist-unpack, dist-build, dist-install exists.
C2_NoScratchLeft ==
    CheckDistEndedByTryBlock =>
        \A p \in fs : ~(\E d \in {unpackdir, builddir, installdir} : Under(d, p))

C2_Witness ==
    /\ check_rc = "exception"
    /\ pending = "exception"
    /\ Message("AssertionError") \in msgs
    /\ fs \cap {unpackdir, builddir, installdir} = {}

\* C3: the stages run in the order configure, build, test, install, each only
\* after every earlier one exited zero; a stage that exits non-zero is the last
\* stage invoked and makes check_dist return 1 (it has "return 1" pending while
\* the finally block runs); check_dist returns 0 only after all four exited zero.
C3_StagesInOrder ==
    /\ Len(StageLog) <= Len(Stages)
    /\ \A k \in DOMAIN StageLog :
         /\ StageLog[k].cmd = Stages[k]
         /\ \A j \in 1..(k - 1) : StageLog[j].out = "0"
         /\ StageLog[k].out # "0" =>
              /\ k = Len(StageLog)
              /\ pc \in {"finally", "stamp", "done"}
              /\ pending = "return 1" \/ pending = "raised in finally"
              /\ check_rc \in {"0", "1"} => check_rc = "1"
    /\ check_rc = "1" => StageLog # <<>> /\ StageLog[Len(StageLog)].out # "0"
    /\ check_rc = "0" =>
         /\ Len(StageLog) = Len(Stages)
         /\ \A k \in DOMAIN StageLog : StageLog[k].out = "0"

C3_Witness ==
    /\ check_rc = "1"
    /\ Len(StageLog) = 3
    /\ StageLog[3].cmd = "test"
    /\ StageLog[3].out = "1"
\* C4 (as claimed): whenever the archive unpacked to a number of top-level
\* entries other than one, whatever their names, the assertion fails, configure
\* is never invoked and no digest is written.
C4_AnyEntryCountButOneFails ==
    (\E e \in Range(log) : e.cmd = "unpack_archive" /\ e.out = "0")
        /\ Cardinality(unpacked) # 1 =>
            /\ Message("AssertionError") \in msgs
            /\ "configure" \notin Cmds(log)
            /\ HashLog = <<>>

\* The formats the specification permits, and the extension it fixes for each.
SpecFormats == {<<"gztar">>, <<"xztar">>, <<"zip">>}
SpecExtension(a) ==
    CASE a = <<"gztar">> -> <<".tar", ".gz">>
      [] a = <<"xztar">> -> <<".tar", ".xz">>
      [] a = <<"zip">> -> <<".zip">>
ExpectedPath(a) == <<"meson-dist", "/", "proj-1.0">> \o SpecExtension(a)

InvalidParts(f) == {k \in DOMAIN split(f) : split(f)[k] \notin SpecFormats}
FirstInvalid(f) == split(f)[CHOOSE k \in InvalidParts(f) : \A j \in InvalidParts(f) : k <= j]

\* Nothing has been done yet: no command run, no strategy chosen, no
\* directory, archive or sidecar created.
NoWorkDone ==
    /\ log = <<>>
    /\ vcs = "none"
    /\ fs \in InitialFs
    /\ names = <<>>

\* C5: a --formats string with an element that is not gztar, xztar or zip, at
\* any position, ends the run by sys.exit with a message that names the first
\* such element and the permitted values, before anything else is done.
C5_InvalidFormatAbortsFirst ==
    pc # "run" /\ InvalidParts(formats) # {} =>
        /\ pc = "done"
        /\ result = "sys.exit"
        /\ \E m \in msgs : /\ m.value = FirstInvalid(formats)
                           /\ m.permitted = <<<<"gztar">>, <<"xztar">>, <<"zip">>>>
        /\ NoWorkDone

C5_Witness ==
    /\ pc = "done"
    /\ formats = <<"gztar", ",", "zip", ",", "rar">>
    /\ result = "sys.exit"

\* C6: the empty --formats string ends the run by sys.exit before anything is
\* done, and determine_archives_to_generate never returns an empty list: the
\* run gets past validation only with a non-empty list of archives.
C6_EmptyFormatsRejected ==
    /\ pc # "run" /\ formats = <<>> =>
         /\ pc = "done"
         /\ result = "sys.exit"
         /\ msgs # {}
         /\ NoWorkDone
    /\ pc \notin {"run", "done"} => archives # <<>>
    /\ pc = "done" /\ archives = <<>> => result = "sys.exit" /\ NoWorkDone

C6_Witness ==
    /\ pc = "done"
    /\ formats = <<>>
    /\ result = "sys.exit"

NoDuplicates(q) == \A j, k \in DOMAIN q : q[j] = q[k] => j = k

\* C7: when the archive-building step has returned for a list of distinct
\* formats, under either strategy, names holds as many distinct paths as there
\* are formats, they are the paths <dist-dir>/<project>-<version><extension> of
\* the requested formats, each exists, and no archive of another format does.
C7_OneArchivePerFormat ==
    Built /\ NoDuplicates(archives) =>
        /\ Len(names) = Len(archives)
        /\ NoDuplicates(names)
        /\ Range(names) = {ExpectedPath(a) : a \in Range(archives)}
        /\ \A a \in SpecFormats : ExpectedPath(a) \in fs <=> a \in Range(archives)
        /\ \A p \in fs : p # <<"meson-dist", "/", "proj-1.0", ".tar">>

C7_Witness ==
    /\ Built
    /\ vcs = "hg"
    /\ archives = <<<<"zip">>, <<"gztar">>, <<"xztar">>>>
    /\ Len(names) = 3

UnpackLog == SelectSeq(log, LAMBDA e : e.cmd = "unpack_archive")

\* C8 (as claimed): the archive unpacked by check_dist is the archive of the
\* first requested format.
C8_FirstRequestedVerified ==
    \A e \in Range(UnpackLog) : e.arg = ExpectedPath(archives[1])

\* The first format of order that is among the formats asked for.
FirstIn(order, asked) ==
    order[CHOOSE k \in DOMAIN order :
            order[k] \in asked /\ \A j \in 1..(k - 1) : order[j] \notin asked]

\* C8 (amended): one archive is unpacked, the first of the list the
\* archive-building step returned: under Git the archive of the first requested
\* format, under Mercurial the archive of the first of xztar, gztar, zip that
\* was requested, whatever the order of the request.
C8_FirstProducedVerified ==
    /\ Len(UnpackLog) <= 1
    /\ \A e \in Range(UnpackLog) :
         /\ e.arg = names[1]
         /\ vcs = "git" => e.arg = ExpectedPath(archives[1])
         /\ vcs = "hg" =>
              e.arg = ExpectedPath(FirstIn(<<<<"xztar">>, <<"gztar">>, <<"zip">>>>,
                                           Range(archives)))

C8_Witness ==
    /\ vcs = "hg"
    /\ archives = <<<<"zip">>, <<"xztar">>>>
    /\ UnpackLog # <<>>
    /\ UnpackLog[1].arg = ExpectedPath(<<"xztar">>)

\* C9: under Git the scripts run in the order registered, each only after all
\* earlier ones exited zero; a script that cannot be started or exits non-zero
\* is the last thing the run does: the run ends by sys.exit, with no further
\* script, no archive, no verification stage and no sidecar; archives are
\* built only after every script has exited zero.
C9_ScriptsInOrderFailFast ==
    vcs = "git" =>
        LET h == ScriptLog
        IN  /\ Len(h) <= Len(dist_scripts)
            /\ \A k \in DOMAIN h :
                 /\ h[k].arg = <<dist_scripts[k]>>
                 /\ \A j \in 1..(k - 1) : h[j].out = "0"
                 /\ h[k].out # "0" =>
                      /\ k = Len(h)
                      /\ log[Len(log)] = h[k]
                      /\ pc = "done"
                      /\ result = "sys.exit"
                      /\ names = <<>>
                      /\ \A a \in SpecFormats : ExpectedPath(a) \notin fs
                      /\ Cmds(log) \cap {"make_archive", "unpack_archive", "configure",
                                         "build", "test", "install", "create_hash"} = {}
            /\ "make_archive" \in Cmds(log) \/ Built =>
                 /\ Len(h) = Len(dist_scripts)
                 /\ \A k \in DOMAIN h : h[k].out = "0"

C9_Witness ==
    /\ vcs = "git"
    /\ pc = "done"
    /\ Len(ScriptLog) = 2
    /\ ScriptLog[1].out = "0"
    /\ ScriptLog[2].out = "OSError"

\* The archives the Mercurial strategy returns for a request, hooks or no hooks.
HgNames(asked) ==
    (IF <<"xztar">> \in asked THEN <<ExpectedPath(<<"xztar">>)>> ELSE <<>>)
        \o (IF <<"gztar">> \in asked THEN <<ExpectedPath(<<"gztar">>)>> ELSE <<>>)
        \o (IF <<"zip">> \in asked THEN <<ExpectedPath(<<"zip">>)>> ELSE <<>>)

\* C10: under Mercurial no dist script is ever run; when scripts are registered
\* the warning has been printed by the time the archive-building step returns;
\* and the step returns the archives that depend on the requested formats
\* alone, the same with scripts registered as with none.
C10_HgSkipsScripts ==
    vcs = "hg" =>
        /\ ScriptLog = <<>>
        /\ \A e \in Range(log) : \A b \in e.env : b.var # "MESON_DIST_ROOT"
        /\ result # "sys.exit"
        /\ Built =>
             /\ names = HgNames(Range(archives))
             /\ dist_scripts # <<>> =>
                  \E m \in msgs :
                     m.text = "dist scripts are not supported in Mercurial projects"

C10_Witness ==
    /\ vcs = "hg"
    /\ Len(dist_scripts) = 2
    /\ pc = "done"
    /\ result = "return 0"
    /\ \E m \in msgs : m.text = "dist scripts are not supported in Mercurial projects"
    /\ \A k \in DOMAIN names : hashname(names[k]) \in fs
\* C11 (as claimed): under Git, once submodules are processed and the control
\* files stripped (while scripts run and archives are built), no path of the
\* snapshot has a component whose name starts with ".git", at any depth.
C11_NoGitFilesAnywhere ==
    vcs = "git" /\ pc \in {"git_scripts", "git_archive"} =>
        \A p \in fs : Under(distdir, p) => \A k \in DOMAIN p : p[k] # ".git"
\* The external VCS commands of snapshot extraction that are run by check_call
\* or check_output.
VcsCommands ==
    {"git clone", "git submodule update", "hg summary", "hg archive tar", "hg archive zip"}
VerificationCmds == {"unpack_archive", "configure", "build", "test", "install"}

\* C12 (as claimed): once a VCS command of snapshot extraction has exited
\* non-zero, the run has ended with a non-zero result, no archive of any
\* format is on disk, nothing was verified and no sidecar was written.
C12_VcsFailureLeavesNoArchive ==
    (\E e \in Range(log) : e.cmd \in VcsCommands /\ e.out # "0") =>
        /\ pc = "done"
        /\ result \in {"return 1", "sys.exit", "exception"}
        /\ \A a \in SpecFormats : ExpectedPath(a) \notin fs
        /\ Cmds(log) \cap (VerificationCmds \cup {"create_hash"}) = {}
\* run() has looked at <src_root>/.git and <src_root>/.hg.
Detected == pc \notin {"run", "detect"} /\ archives # <<>>

\* C13: a .git entry that is a file or a directory selects the Git strategy,
\* whatever .hg is; the Mercurial strategy is selected exactly when there is no
\* such .git entry and .hg is a directory; in every other case the run has
\* ended with return 1 and nothing was done: no command, no directory, no
\* archive, no sidecar.
C13_VcsSelection ==
    Detected =>
        /\ src_git \in {"file", "dir"} => vcs = "git"
        /\ vcs = "git" => src_git \in {"file", "dir"}
        /\ vcs = "hg" <=> (src_git \notin {"file", "dir"} /\ src_hg = "dir")
        /\ src_git \notin {"file", "dir"} /\ src_hg # "dir" =>
             /\ vcs = "none"
             /\ pc = "done"
             /\ result = "return 1"
             /\ NoWorkDone
             /\ \E m \in msgs :
                   m.text = "Dist currently only works with Git or Mercurial repos"

C13_Witness ==
    /\ Detected
    /\ src_git = "absent"
    /\ src_hg = "file"
    /\ pc = "done"
    /\ result = "return 1"
\* The commands that write an archive file.
ArchiveWrites == {"make_archive", "compress", "hg archive tar", "hg archive zip"}

\* C14: from the moment the archive-building step has returned, every produced
\* archive stays on disk whatever verification does; no command that writes an
\* archive runs after verification has begun; and the dist directory holds
\* nothing but the archives and their sidecars (and, under Mercurial, a stale
\* snapshot directory that the run never touches).
C14_ArchivesKept ==
    Built =>
        /\ \A k \in DOMAIN names : names[k] \in fs
        /\ \A p \in fs :
             Under(dist_sub, p) =>
                 \/ p = dist_sub
                 \/ p \in Range(names)
                 \/ \E n \in Range(names) : p = hashname(n)
                 \/ vcs = "hg" /\ Under(distdir, p)
        /\ \A j, k \in DOMAIN log :
             j < k /\ log[j].cmd \in VerificationCmds \cup {"create_hash"} =>
                 log[k].cmd \notin ArchiveWrites

C14_Witness ==
    /\ pc = "done"
    /\ check_rc = "1"
    /\ Len(names) = 2
    /\ names[1] # names[2]
    /\ \A k \in DOMAIN names : names[k] \in fs
\* C15: under Git the snapshot directory exists from its creation until the
\* archive-building step returns: while the clone, the submodules, the scripts
\* and the archiving run; it is gone, with everything below it, when that step
\* has returned (all archives are built then) and so when verification starts;
\* and a run that ended before the step returned (a VCS command or a script
\* failed) has left the snapshot directory on disk.
C15_SnapshotLifecycle ==
    vcs = "git" =>
        /\ pc \in {"git_clone", "git_submodules", "git_scripts", "git_archive"} =>
             distdir \in fs
        /\ Built =>
             /\ \A p \in fs : ~Under(distdir, p)
             /\ Len(names) = Len(archives)
             /\ \A k \in DOMAIN names : names[k] \in fs
        /\ pc # "git_dirty" /\ distdir \notin fs => Built
        /\ pc = "done" /\ ~Built =>
             /\ distdir \in fs
             /\ log[Len(log)].cmd \in {"git clone", "git submodule update", "dist script"}
             /\ log[Len(log)].out # "0"

C15_Witness ==
    /\ vcs = "git"
    /\ pc = "done"
    /\ ~Built
    /\ log[Len(log)].cmd = "dist script"
    /\ join(distdir, <<"meson.build">>) \in fs
\* C16: when check_dist has ended, whichever way (a return value or an
\* exception, raised while the workspace was prepared, in the try block or
\* during cleanup), none of the three scratch directories remains.
C16_ScratchAlwaysReleased ==
    check_rc # "none" =>
        \A k \in DOMAIN scratch_dirs :
            \A p \in fs : ~Under(scratch_dirs[k], p)
\* C17: leftovers of an earlier run never reach what this run uses, so the
\* run proceeds from the same directories as a run started with none of them:
\* under Git the clone starts from a snapshot directory that holds nothing,
\* and no stale entry is in the snapshot while it is cloned into, processed
\* and archived; under both strategies the archive is unpacked into three
\* scratch directories that hold nothing, and no stale entry is in them, or
\* among the entries glob finds, while the stages run.
Leftover(p) == \E d \in StaleDirs : p = join(d, stale)
Binding(var, value) == [var |-> var, value |-> value]
C18_EnvironmentScoping ==
    /\ environ = ParentEnviron
    /\ \A e \in Range(log) :
         /\ e.cmd = "dist script" =>
              /\ e.env = ParentEnviron \cup {Binding("MESON_DIST_ROOT", distdir)}
              /\ Cardinality(e.env) = Cardinality(ParentEnviron) + 1
         /\ e.cmd = "install" =>
              /\ Binding("DESTDIR", installdir) \in e.env
              /\ \A b \in e.env : b.var = "DESTDIR" => b.value = installdir
              /\ {b \in e.env : b.var # "DESTDIR"} = {b \in ParentEnviron : b.var # "DESTDIR"}
         /\ e.cmd \notin {"dist script", "install"} =>
              /\ e.env = ParentEnviron
              /\ Binding("DESTDIR", installdir) \notin e.env
              /\ \A b \in e.env : b.var # "MESON_DIST_ROOT"

C18_Witness ==
    /\ \E e \in Range(log) : e.cmd = "dist script" /\ e.out = "0"
    /\ \E j, k \in DOMAIN log :
         /\ log[j].cmd = "test" /\ log[j].env = ParentEnviron
         /\ log[k].cmd = "install" /\ Binding("DESTDIR", installdir) \in log[k].env
\* C19: when run() has returned 0, every archive file produced has been
\* stamped exactly once, whatever valid list of formats was asked for.
C19_StampedOncePerArchive ==
    result = "return 0" =>
        \A n \in Range(names) :
            Cardinality({k \in DOMAIN log :
                            log[k].cmd = "create_hash" /\ log[k].arg = n}) = 1
\* C20: when run() is at the call of check_dist, and from then on, the list
\* of archive names is not empty: the validated list is not empty and names
\* only gztar, xztar and zip; under Git there is one name per element of it,
\* under Mercurial at least one name.  names[0] is never missing, and no run
\* ends with 'No archive types specified.'.
C20_NamesNonEmpty ==
    /\ \A m \in msgs :
         /\ m.text # "No archive types specified."
         /\ m.text # "IndexError"
    /\ vcs # "none" =>
         /\ Len(archives) >= 1
         /\ \A k \in DOMAIN archives :
              archives[k] \in {<<"gztar">>, <<"xztar">>, <<"zip">>}
    /\ Built =>
         /\ Len(names) >= 1
         /\ vcs = "git" => Len(names) = Len(archives)
         /\ vcs = "hg" => Len(names) <= Len(archives)

\* The Mercurial strategy has returned one name for a list of two elements.
C20_Witness ==
    /\ pc = "prepare"
    /\ vcs = "hg"
    /\ Len(archives) = 2
    /\ Len(names) = 1
====
